---- MODULE Spec2Model ----
(***************************************************************************)
(* Proof-of-existence pallet (pallets/poe/src/lib.rs): a storage map from  *)
(* a bounded byte vector (the claim) to (owner account, block number), and *)
(* the three dispatchable calls create_claim, revoke_claim, transfer_claim.*)
(* Calls are dispatched one at a time; a call that returns an error leaves *)
(* storage and the event log as they were.                                 *)
(***************************************************************************)
EXTENDS Integers, Sequences, FiniteSets, TLC

\* ---------------------------------------------------------------- bounds
\* At most MaxOk calls succeed in a run (the event log never grows past it).
MaxOk == 3
\* frame_system's block number runs from 0 to MaxBlock.
MaxBlock == 1

\* The script of the concrete scenario runs between block 0 and this block.
ScenarioMaxBlock == 4

\* ------------------------------------------------------- configuration
\* The value the runtime gives Config::MaxClaimLength in the general model.
RuntimeMaxClaimLength == 1

\* The value Config::MaxClaimLength has in the concrete scenario.
ScenarioMaxClaimLength == 10

\* u8 values the claims are built from.
Bytes == {0, 1}

\* T::AccountId
Accounts == {"Alice", "Bob", "Carol"}

\* Placeholder for "no account" in records of calls that have none.
NoAccount == "-"

\* OriginFor<T>: a signed origin carries the account; Root and None do not.
Signed(who) == [kind |-> "Signed", who |-> who]
Origins == {Signed(a) : a \in Accounts}
             \cup {[kind |-> "Root", who |-> NoAccount],
                   [kind |-> "None", who |-> NoAccount]}

VARIABLES
    Proofs,        \* StorageMap Proofs: claim -> <<owner, block number>>
    block_number,  \* frame_system::Pallet::<T>::block_number()
    events,        \* the events deposited so far, oldest first
    last,          \* the last dispatched call: arguments and DispatchResult
    nok,           \* number of calls that returned Ok
    max_claim_length,  \* the runtime's Config::MaxClaimLength, fixed at Init
    step           \* calls of the scenario script made so far (0 when no script runs)

vars == <<Proofs, block_number, events, last, nok, max_claim_length, step>>

\* Config::MaxClaimLength (#[pallet::constant], Get<u32>): the bound of the
\* BoundedVec that is the storage key and the argument of every call.
MaxClaimLength == max_claim_length

\* Byte strings a caller can put on the wire for the `claim` argument: every
\* length up to one more than the bound of the BoundedVec.
RawClaims == UNION {[1..n -> Bytes] : n \in 0..(MaxClaimLength + 1)}

\* ------------------------------------------------------ storage map API
\* StorageMap::contains_key
contains_key(map, key) == key \in DOMAIN map

\* StorageMap::insert: adds the key or overwrites its value.
insert(map, key, value) ==
    [k \in (DOMAIN map) \cup {key} |-> IF k = key THEN value ELSE map[k]]

\* StorageMap::remove
remove(map, key) == [k \in (DOMAIN map) \ {key} |-> map[k]]

\* ------------------------------------------------------------ events
ClaimCreated(who, claim) == <<"ClaimCreated", who, claim>>
ClaimRevoked(who, claim) == <<"ClaimRevoked", who, claim>>
ClaimTransfered(who, target, claim) == <<"ClaimTransfered", who, target, claim>>

\* ------------------------------------------------------------ outcomes
\* An Err return (a failed ensure! or `?`): every one of them comes before the
\* call's first write, so storage and the event log are the ones the call
\* started from.
Err(e) == [result |-> e, Proofs |-> Proofs, events |-> events]

\* An Ok return with the storage and event log the call leaves behind.
Ok(proofs, evs) == [result |-> "Ok", Proofs |-> proofs, events |-> evs]

\* ensure_signed(origin): Ok(account) for a signed origin, BadOrigin otherwise.
ensure_signed(origin) == origin.kind = "Signed"

\* Decoding the `claim` argument into BoundedVec<u8, MaxClaimLength>: a byte
\* string longer than the bound is not a value of the type and is rejected.
BoundedVecFits(raw) == Len(raw) <= MaxClaimLength

\* --------------------------------------------------------- create_claim
\* Faulty variant: the contains_key check is missing, so an existing claim is
\* overwritten.
create_claim_overwrites(origin, claim) ==
    IF ~ensure_signed(origin) THEN Err("BadOrigin")
    ELSE IF ~(Len(claim) <= MaxClaimLength) THEN Err("ClaimLengthTooLarge")
    ELSE Ok(insert(Proofs, claim, <<origin.who, block_number>>),
            Append(events, ClaimCreated(origin.who, claim)))

\* Faulty variant: the origin is checked after the claim, so an unsigned call
\* on an existing claim is answered with ProofAlreadyExist.
create_claim_origin_checked_late(origin, claim) ==
    IF ~(Len(claim) <= MaxClaimLength) THEN Err("ClaimLengthTooLarge")
    ELSE IF contains_key(Proofs, claim) THEN Err("ProofAlreadyExist")
    ELSE IF ~ensure_signed(origin) THEN Err("BadOrigin")
    ELSE Ok(insert(Proofs, claim, <<origin.who, block_number>>),
            Append(events, ClaimCreated(origin.who, claim)))

\* Faulty variant: the existence check asks whether any claim is stored.
create_claim_any_claim_blocks(origin, claim) ==
    IF ~ensure_signed(origin) THEN Err("BadOrigin")
    ELSE IF ~(Len(claim) <= MaxClaimLength) THEN Err("ClaimLengthTooLarge")
    ELSE IF Proofs # <<>> THEN Err("ProofAlreadyExist")
    ELSE Ok(insert(Proofs, claim, <<origin.who, block_number>>),
            Append(events, ClaimCreated(origin.who, claim)))

\* Faulty variant: the claim is stored with the default block number.
create_claim_block_zero(origin, claim) ==
    IF ~ensure_signed(origin) THEN Err("BadOrigin")
    ELSE IF ~(Len(claim) <= MaxClaimLength) THEN Err("ClaimLengthTooLarge")
    ELSE IF contains_key(Proofs, claim) THEN Err("ProofAlreadyExist")
    ELSE Ok(insert(Proofs, claim, <<origin.who, 0>>),
            Append(events, ClaimCreated(origin.who, claim)))

create_claim(origin, claim) ==
    IF ~ensure_signed(origin) THEN Err("BadOrigin")
    ELSE IF ~(Len(claim) <= MaxClaimLength) THEN Err("ClaimLengthTooLarge")
    ELSE IF contains_key(Proofs, claim) THEN Err("ProofAlreadyExist")
    ELSE Ok(insert(Proofs, claim, <<origin.who, block_number>>),
            Append(events, ClaimCreated(origin.who, claim)))

\* --------------------------------------------------------- revoke_claim
\* Faulty variant: the owner check is missing.
revoke_claim_by_anyone(origin, claim) ==
    IF ~ensure_signed(origin) THEN Err("BadOrigin")
    ELSE IF ~contains_key(Proofs, claim) THEN Err("ClaimNotExist")
    ELSE Ok(remove(Proofs, claim),
            Append(events, ClaimRevoked(origin.who, claim)))

\* Faulty variant: the event is deposited but the entry is not removed.
revoke_claim_keeps_entry(origin, claim) ==
    IF ~ensure_signed(origin) THEN Err("BadOrigin")
    ELSE IF ~contains_key(Proofs, claim) THEN Err("ClaimNotExist")
    ELSE IF Proofs[claim][1] # origin.who THEN Err("NotClaimOwner")
    ELSE Ok(Proofs, Append(events, ClaimRevoked(origin.who, claim)))

\* Faulty variant: the whole map is cleared where one key was to be removed.
revoke_claim_clears_map(origin, claim) ==
    IF ~ensure_signed(origin) THEN Err("BadOrigin")
    ELSE IF ~contains_key(Proofs, claim) THEN Err("ClaimNotExist")
    ELSE IF Proofs[claim][1] # origin.who THEN Err("NotClaimOwner")
    ELSE Ok(<<>>, Append(events, ClaimRevoked(origin.who, claim)))

\* Faulty variant: a missing claim is reported as a claim of someone else.
revoke_claim_missing_is_not_owner(origin, claim) ==
    IF ~ensure_signed(origin) THEN Err("BadOrigin")
    ELSE IF ~contains_key(Proofs, claim) THEN Err("NotClaimOwner")
    ELSE IF Proofs[claim][1] # origin.who THEN Err("NotClaimOwner")
    ELSE Ok(remove(Proofs, claim),
            Append(events, ClaimRevoked(origin.who, claim)))

revoke_claim(origin, claim) ==
    IF ~ensure_signed(origin) THEN Err("BadOrigin")
    ELSE IF ~contains_key(Proofs, claim) THEN Err("ClaimNotExist")
    ELSE IF Proofs[claim][1] # origin.who THEN Err("NotClaimOwner")
    ELSE Ok(remove(Proofs, claim),
            Append(events, ClaimRevoked(origin.who, claim)))

\* ------------------------------------------------------- transfer_claim
\* Faulty variant: the owner check is missing.
transfer_claim_by_anyone(origin, claim, target) ==
    IF ~ensure_signed(origin) THEN Err("BadOrigin")
    ELSE IF ~contains_key(Proofs, claim) THEN Err("ClaimNotExist")
    ELSE Ok(insert(Proofs, claim, <<target, block_number>>),
            Append(events, ClaimTransfered(origin.who, target, claim)))

\* Faulty variant: the block number of the previous block is stored.
transfer_claim_previous_block(origin, claim, target) ==
    IF ~ensure_signed(origin) THEN Err("BadOrigin")
    ELSE IF ~contains_key(Proofs, claim) THEN Err("ClaimNotExist")
    ELSE IF Proofs[claim][1] # origin.who THEN Err("NotClaimOwner")
    ELSE Ok(insert(Proofs, claim,
                   <<target, IF block_number > 0 THEN block_number - 1 ELSE 0>>),
            Append(events, ClaimTransfered(origin.who, target, claim)))

\* Faulty variant: the owner is replaced but the stored block number is kept.
transfer_claim_keeps_block(origin, claim, target) ==
    IF ~ensure_signed(origin) THEN Err("BadOrigin")
    ELSE IF ~contains_key(Proofs, claim) THEN Err("ClaimNotExist")
    ELSE IF Proofs[claim][1] # origin.who THEN Err("NotClaimOwner")
    ELSE Ok(insert(Proofs, claim, <<target, Proofs[claim][2]>>),
            Append(events, ClaimTransfered(origin.who, target, claim)))

\* Faulty variant: Proofs::remove where Proofs::insert was meant, so the entry
\* is dropped instead of being rewritten.
transfer_claim_removes(origin, claim, target) ==
    IF ~ensure_signed(origin) THEN Err("BadOrigin")
    ELSE IF ~contains_key(Proofs, claim) THEN Err("ClaimNotExist")
    ELSE IF Proofs[claim][1] # origin.who THEN Err("NotClaimOwner")
    ELSE Ok(remove(Proofs, claim),
            Append(events, ClaimTransfered(origin.who, target, claim)))

\* Faulty variant: the storage is updated but no event is deposited.
transfer_claim_silent(origin, claim, target) ==
    IF ~ensure_signed(origin) THEN Err("BadOrigin")
    ELSE IF ~contains_key(Proofs, claim) THEN Err("ClaimNotExist")
    ELSE IF Proofs[claim][1] # origin.who THEN Err("NotClaimOwner")
    ELSE Ok(insert(Proofs, claim, <<target, block_number>>), events)

transfer_claim(origin, claim, target) ==
    IF ~ensure_signed(origin) THEN Err("BadOrigin")
    ELSE IF ~contains_key(Proofs, claim) THEN Err("ClaimNotExist")
    ELSE IF Proofs[claim][1] # origin.who THEN Err("NotClaimOwner")
    ELSE Ok(insert(Proofs, claim, <<target, block_number>>),
            Append(events, ClaimTransfered(origin.who, target, claim)))

\* ------------------------------------------------- statement by statement
\* The bodies of the three calls as the statements they run, in source order.
\* A statement is a check (ensure_signed, ensure!, ok_or(..)?), a write to
\* Proofs, the deposit of the event, or the final Ok.

\* Faulty variant: the claim is inserted before it is checked to be absent.
create_claim_body_insert_first ==
    <<"ensure_signed", "ensure_length", "insert_sender", "ensure_absent",
      "deposit_created", "return_ok">>

create_claim_body ==
    <<"ensure_signed", "ensure_length", "ensure_absent", "insert_sender",
      "deposit_created", "return_ok">>

revoke_claim_body ==
    <<"ensure_signed", "get_owner", "ensure_owner", "remove",
      "deposit_revoked", "return_ok">>

transfer_claim_body ==
    <<"ensure_signed", "get_owner", "ensure_owner", "insert_target",
      "deposit_transfered", "return_ok">>

BodyOf(op) ==
    CASE op = "create"   -> create_claim_body
      [] op = "revoke"   -> revoke_claim_body
      [] op = "transfer" -> transfer_claim_body

\* One statement of a call, run on the call's working state st: the storage
\* and event log as the call has left them so far, the local `owner`, and the
\* result ("running" until the call returns).
Exec(stmt, call, st) ==
    LET fail(e) == [st EXCEPT !.result = e]
        who == call.origin.who
    IN  CASE stmt = "ensure_signed" ->
               IF ensure_signed(call.origin) THEN st ELSE fail("BadOrigin")
          [] stmt = "ensure_length" ->
               IF Len(call.claim) <= MaxClaimLength THEN st
               ELSE fail("ClaimLengthTooLarge")
          [] stmt = "ensure_absent" ->
               IF ~contains_key(st.Proofs, call.claim) THEN st
               ELSE fail("ProofAlreadyExist")
          [] stmt = "get_owner" ->
               IF contains_key(st.Proofs, call.claim)
               THEN [st EXCEPT !.owner = st.Proofs[call.claim][1]]
               ELSE fail("ClaimNotExist")
          [] stmt = "ensure_owner" ->
               IF st.owner = who THEN st ELSE fail("NotClaimOwner")
          [] stmt = "insert_sender" ->
               [st EXCEPT !.Proofs = insert(st.Proofs, call.claim,
                                            <<who, block_number>>)]
          [] stmt = "insert_target" ->
               [st EXCEPT !.Proofs = insert(st.Proofs, call.claim,
                                            <<call.target, block_number>>)]
          [] stmt = "remove" ->
               [st EXCEPT !.Proofs = remove(st.Proofs, call.claim)]
          [] stmt = "deposit_created" ->
               [st EXCEPT !.events = Append(st.events,
                                            ClaimCreated(who, call.claim))]
          [] stmt = "deposit_revoked" ->
               [st EXCEPT !.events = Append(st.events,
                                            ClaimRevoked(who, call.claim))]
          [] stmt = "deposit_transfered" ->
               [st EXCEPT !.events =
                   Append(st.events,
                          ClaimTransfered(who, call.target, call.claim))]
          [] stmt = "return_ok" -> [st EXCEPT !.result = "Ok"]

\* The working states after each statement that runs, from statement i on;
\* the call stops at the first statement that returns.
RECURSIVE RunFrom(_, _, _, _)
RunFrom(body, i, call, st) ==
    IF i > Len(body) \/ st.result # "running" THEN <<>>
    ELSE LET nxt == Exec(body[i], call, st)
         IN  <<nxt>> \o RunFrom(body, i + 1, call, nxt)

\* The run of `call` (its op, origin, claim, target) from the current state.
Run(call) ==
    RunFrom(BodyOf(call.op), 1, call,
            [Proofs |-> Proofs, events |-> events, owner |-> NoAccount,
             result |-> "running"])

\* ------------------------------------------------------------ dispatch
\* No extrinsic is being applied.
NoCall == [op |-> "none", origin |-> [kind |-> "None", who |-> NoAccount],
           claim |-> <<>>, target |-> NoAccount, prior |-> <<>>,
           result |-> "none"]

\* Proofs::get(&claim) as an Option: <<>> for None, else <<owner, block>>.
get(map, key) == IF contains_key(map, key) THEN map[key] ELSE <<>>

\* Decoding the extrinsic's `claim` bytes into the call's parameter type
\* happens before the call runs: bytes that do not fit never reach it.
Decoded(raw, out) == IF BoundedVecFits(raw) THEN out ELSE Err("DecodeError")

\* What a call with these arguments returns and leaves, from the current state.
CallOutcome(op, origin, raw, target) ==
    Decoded(raw, CASE op = "create"   -> create_claim(origin, raw)
                   [] op = "revoke"   -> revoke_claim(origin, raw)
                   [] op = "transfer" -> transfer_claim(origin, raw, target))

\* One extrinsic, applied atomically: `out` is what the call returns and the
\* storage and event log it leaves. `last` records the call and its result.
Dispatch(op, origin, raw, target, out) ==
    /\ last = NoCall
    /\ nok < MaxOk
    /\ Proofs' = out.Proofs
    /\ events' = out.events
    /\ nok' = IF out.result = "Ok" THEN nok + 1 ELSE nok
    /\ last' = [op |-> op, origin |-> origin, claim |-> raw, target |-> target,
                prior |-> get(Proofs, raw), result |-> out.result]
    /\ UNCHANGED <<block_number, max_claim_length>>

CreateClaim ==
    /\ \E origin \in Origins, raw \in RawClaims :
          Dispatch("create", origin, raw, NoAccount,
                   Decoded(raw, create_claim(origin, raw)))
    /\ UNCHANGED step

RevokeClaim ==
    /\ \E origin \in Origins, raw \in RawClaims :
          Dispatch("revoke", origin, raw, NoAccount,
                   Decoded(raw, revoke_claim(origin, raw)))
    /\ UNCHANGED step

TransferClaim ==
    /\ \E origin \in Origins, raw \in RawClaims, target \in Accounts :
          Dispatch("transfer", origin, raw, target,
                   Decoded(raw, transfer_claim(origin, raw, target)))
    /\ UNCHANGED step

\* The DispatchResult has been handed back; the next extrinsic can be applied.
Return ==
    /\ last # NoCall
    /\ last' = NoCall
    /\ UNCHANGED <<Proofs, block_number, events, nok, max_claim_length, step>>

\* Between extrinsics the chain may move to the next block.
NextBlock ==
    /\ last = NoCall
    /\ block_number < MaxBlock
    /\ block_number' = block_number + 1
    /\ UNCHANGED <<Proofs, events, last, nok, max_claim_length, step>>

\* Genesis: empty storage, no events, block 0.
Genesis ==
    /\ Proofs = <<>>
    /\ block_number = 0
    /\ events = <<>>
    /\ last = NoCall
    /\ nok = 0
    /\ step = 0

Init ==
    /\ Genesis
    /\ max_claim_length = RuntimeMaxClaimLength

Next == CreateClaim \/ RevokeClaim \/ TransferClaim \/ Return \/ NextBlock

Spec == Init /\ [][Next]_vars

\* ------------------------------------------------------------ scenario
\* The concrete scenario: MaxClaimLength is 10, storage starts empty, and six
\* calls on the claim "hello" are dispatched in order, at block numbers that
\* never decrease.
Hello == <<104, 101, 108, 108, 111>>

Script ==
    << [op |-> "create",   who |-> "Alice", target |-> NoAccount],
       [op |-> "create",   who |-> "Bob",   target |-> NoAccount],
       [op |-> "transfer", who |-> "Bob",   target |-> "Carol"],
       [op |-> "transfer", who |-> "Alice", target |-> "Carol"],
       [op |-> "revoke",   who |-> "Alice", target |-> NoAccount],
       [op |-> "revoke",   who |-> "Carol", target |-> NoAccount] >>

\* The next call of the script is dispatched.
ScenarioCall ==
    /\ step < Len(Script)
    /\ step' = step + 1
    /\ LET c == Script[step + 1]
            origin == Signed(c.who)
       IN  Dispatch(c.op, origin, Hello, c.target,
                    Decoded(Hello,
                            CASE c.op = "create" -> create_claim(origin, Hello)
                              [] c.op = "revoke" -> revoke_claim(origin, Hello)
                              [] c.op = "transfer" ->
                                   transfer_claim(origin, Hello, c.target)))

\* Between two calls of the script the chain may move to the next block.
ScenarioTick ==
    /\ last = NoCall
    /\ block_number < ScenarioMaxBlock
    /\ block_number' = block_number + 1
    /\ UNCHANGED <<Proofs, events, last, nok, max_claim_length, step>>

ScenarioInit ==
    /\ Genesis
    /\ max_claim_length = ScenarioMaxClaimLength

ScenarioNext == ScenarioCall \/ Return \/ ScenarioTick

SpecScenario == ScenarioInit /\ [][ScenarioNext]_vars

\* ====================================================================
\* Properties
\* ====================================================================

\* This step applies one extrinsic.
CallStep == last = NoCall /\ last' # NoCall

\* This step is call `op` from a signed origin with a claim that fits the
\* BoundedVec (the call body runs and gets past ensure_signed).
SignedCall(op) ==
    /\ CallStep
    /\ last'.op = op
    /\ last'.origin.kind = "Signed"
    /\ Len(last'.claim) <= MaxClaimLength

\* The claim an event is about (its last field).
EventClaim(e) == e[Len(e)]

\* Whether some deposited event is about claim f, and the latest such event.
HasEventOn(f) == \E i \in 1..Len(events) : EventClaim(events[i]) = f
LastEventOn(f) ==
    LET idx == {i \in 1..Len(events) : EventClaim(events[i]) = f}
        top == CHOOSE i \in idx : \A j \in idx : j <= i
    IN  events[top]

\* --------------------------------------------------------------------
\* C1: in every reachable state, create_claim by any signed caller at any
\* block on a claim that is already a key of Proofs fails with
\* ProofAlreadyExist, and Proofs (so the stored owner and block of that
\* claim) is left as it was.
C1_CreateExistingFails ==
    [][ (SignedCall("create") /\ contains_key(Proofs, last'.claim))
          => (/\ last'.result = "ProofAlreadyExist"
              /\ Proofs' = Proofs
              /\ Proofs'[last'.claim] = Proofs[last'.claim]) ]_vars

\* A second create by another account at a later block was refused and the
\* claim still has the first creator and the first block.
C1_Witness ==
    /\ last.op = "create"
    /\ last.result = "ProofAlreadyExist"
    /\ contains_key(Proofs, last.claim)
    /\ Proofs[last.claim] = last.prior
    /\ last.prior[1] # last.origin.who
    /\ last.prior[2] < block_number
    /\ LastEventOn(last.claim) = ClaimCreated(last.prior[1], last.claim)

\* --------------------------------------------------------------------
\* C2: revoke_claim and transfer_claim (any target) by a signed caller other
\* than the stored owner of an existing claim fail with NotClaimOwner and
\* leave the claim in Proofs with the owner and block it had.
C2_NotOwnerFails ==
    [][ ((SignedCall("revoke") \/ SignedCall("transfer"))
           /\ contains_key(Proofs, last'.claim)
           /\ Proofs[last'.claim][1] # last'.origin.who)
          => (/\ last'.result = "NotClaimOwner"
              /\ Proofs' = Proofs
              /\ contains_key(Proofs', last'.claim)
              /\ Proofs'[last'.claim] = Proofs[last'.claim]) ]_vars

\* Right after create(owner, f) another account tried to revoke f and was
\* refused; f is still stored with its creator.
C2_Witness ==
    /\ last.op = "revoke"
    /\ last.result = "NotClaimOwner"
    /\ contains_key(Proofs, last.claim)
    /\ Proofs[last.claim][1] # last.origin.who
    /\ Proofs[last.claim] = last.prior
    /\ LastEventOn(last.claim) = ClaimCreated(Proofs[last.claim][1], last.claim)

\* --------------------------------------------------------------------
\* C3. Parts shared by the claim as written and as amended.
\* transfer_claim by the stored owner succeeds for every target and stores
\* exactly (target, current block) under the same key.
C3_TransferByOwner ==
    (SignedCall("transfer")
       /\ contains_key(Proofs, last'.claim)
       /\ Proofs[last'.claim][1] = last'.origin.who)
      => (/\ last'.result = "Ok"
          /\ DOMAIN Proofs' = DOMAIN Proofs
          /\ Proofs'[last'.claim] = <<last'.target, block_number>>
          /\ \A g \in DOMAIN Proofs : g # last'.claim => Proofs'[g] = Proofs[g])

\* The latest successful call on the claim of this step was a transfer.
AfterTransfer ==
    /\ HasEventOn(last'.claim)
    /\ LastEventOn(last'.claim)[1] = "ClaimTransfered"

\* After a transfer, revoke_claim by the target succeeds and removes the claim.
C3_TargetRevokes ==
    (SignedCall("revoke") /\ AfterTransfer
       /\ last'.origin.who = LastEventOn(last'.claim)[3])
      => (last'.result = "Ok" /\ ~contains_key(Proofs', last'.claim))

\* After a transfer, revoke_claim by the previous owner fails with NotClaimOwner.
C3_PreviousOwnerRefused ==
    (SignedCall("revoke") /\ AfterTransfer
       /\ last'.origin.who = LastEventOn(last'.claim)[2])
      => last'.result = "NotClaimOwner"

\* C3 as written: after transfer(owner, f, target) for every target, a
\* following revoke(owner, f) fails with NotClaimOwner and revoke(target, f)
\* succeeds.
C3_Original ==
    [][ C3_TransferByOwner /\ C3_TargetRevokes /\ C3_PreviousOwnerRefused ]_vars

\* C3 as amended: transfer_claim by the stored owner succeeds for every
\* target and stores (target, current block) under the same key; a following
\* revoke_claim by the target succeeds; a following revoke_claim by the
\* previous owner fails with NotClaimOwner when the target was another
\* account (after a transfer to oneself the owner is still the owner).
C3_TransferThenRevoke ==
    [][ /\ C3_TransferByOwner
        /\ C3_TargetRevokes
        /\ (SignedCall("revoke") /\ AfterTransfer
              /\ last'.origin.who = LastEventOn(last'.claim)[2]
              /\ LastEventOn(last'.claim)[3] # LastEventOn(last'.claim)[2])
             => last'.result = "NotClaimOwner" ]_vars

\* After create(owner, f) and transfer(owner, f, target) to another account,
\* the previous owner tried to revoke f and was refused.
C3_Witness ==
    /\ last.op = "revoke"
    /\ last.result = "NotClaimOwner"
    /\ Len(events) >= 2
    /\ events[Len(events)] =
         ClaimTransfered(last.origin.who, Proofs[last.claim][1], last.claim)
    /\ events[Len(events) - 1] = ClaimCreated(last.origin.who, last.claim)
    /\ Proofs[last.claim][1] # last.origin.who

\* --------------------------------------------------------------------
\* C4: create_claim with a claim longer than MaxClaimLength fails with
\* ClaimLengthTooLarge and leaves Proofs unchanged.
C4_Original ==
    [][ (CallStep /\ last'.op = "create" /\ last'.origin.kind = "Signed"
           /\ Len(last'.claim) > MaxClaimLength)
          => (last'.result = "ClaimLengthTooLarge" /\ Proofs' = Proofs) ]_vars

\* --------------------------------------------------------------------
\* C5: create_claim by a signed caller with a claim that fits and is not a
\* key succeeds; Proofs gains exactly the key claim -> (caller, current
\* block) and every earlier entry keeps its key and value.
C5_CreateInserts ==
    [][ (SignedCall("create") /\ ~contains_key(Proofs, last'.claim))
          => (/\ last'.result = "Ok"
              /\ DOMAIN Proofs' = (DOMAIN Proofs) \cup {last'.claim}
              /\ Cardinality(DOMAIN Proofs') = Cardinality(DOMAIN Proofs) + 1
              /\ Proofs'[last'.claim] = <<last'.origin.who, block_number>>
              /\ \A g \in DOMAIN Proofs : Proofs'[g] = Proofs[g]) ]_vars

\* A create succeeded at a block after genesis while another claim was
\* already stored.
C5_Witness ==
    /\ last.op = "create"
    /\ last.result = "Ok"
    /\ last.prior = <<>>
    /\ block_number > 0
    /\ Proofs[last.claim] = <<last.origin.who, block_number>>
    /\ Cardinality(DOMAIN Proofs) >= 2

\* --------------------------------------------------------------------
\* C6: revoke_claim by the stored owner succeeds and removes the claim (and
\* nothing else); once the latest successful call on a claim is a revoke,
\* create_claim on it by any signed caller succeeds and stores (caller,
\* current block), however many create/revoke rounds came before.
C6_RevokeThenCreate ==
    [][ /\ (SignedCall("revoke")
              /\ contains_key(Proofs, last'.claim)
              /\ Proofs[last'.claim][1] = last'.origin.who)
             => (/\ last'.result = "Ok"
                 /\ DOMAIN Proofs' = (DOMAIN Proofs) \ {last'.claim}
                 /\ \A g \in DOMAIN Proofs' : Proofs'[g] = Proofs[g])
        /\ (SignedCall("create")
              /\ HasEventOn(last'.claim)
              /\ LastEventOn(last'.claim)[1] = "ClaimRevoked")
             => (/\ last'.result = "Ok"
                 /\ Proofs'[last'.claim] = <<last'.origin.who, block_number>>)
      ]_vars

\* A claim was created, revoked by its owner and then created again by
\* another account.
C6_Witness ==
    /\ last.op = "create"
    /\ last.result = "Ok"
    /\ Proofs[last.claim] = <<last.origin.who, block_number>>
    /\ \E i \in 1..Len(events), a \in Accounts :
          /\ a # last.origin.who
          /\ i + 2 <= Len(events)
          /\ events[i] = ClaimCreated(a, last.claim)
          /\ events[i + 1] = ClaimRevoked(a, last.claim)
          /\ events[i + 2] = ClaimCreated(last.origin.who, last.claim)

\* --------------------------------------------------------------------
\* C7: in every reachable state, revoke_claim and transfer_claim by any
\* signed caller on a claim that is not a key of Proofs (never created, or
\* created and revoked since) fail with ClaimNotExist and leave Proofs
\* unchanged.
C7_MissingFails ==
    [][ ((SignedCall("revoke") \/ SignedCall("transfer"))
           /\ ~contains_key(Proofs, last'.claim))
          => (last'.result = "ClaimNotExist" /\ Proofs' = Proofs) ]_vars

\* A claim that was created and revoked is named in a revoke, which is
\* refused as not existing.
C7_Witness ==
    /\ last.op = "revoke"
    /\ last.result = "ClaimNotExist"
    /\ ~contains_key(Proofs, last.claim)
    /\ HasEventOn(last.claim)
    /\ LastEventOn(last.claim)[1] = "ClaimRevoked"

\* --------------------------------------------------------------------
\* C8: the error follows a fixed order of checks. create: ClaimLengthTooLarge
\* whenever the claim is longer than MaxClaimLength, ProofAlreadyExist only
\* when the length is within the bound. revoke and transfer: ClaimNotExist
\* whenever the claim is not a key, whoever calls; NotClaimOwner only when
\* the key exists and its stored owner is not the caller.
C8_Original ==
    [][ /\ (CallStep /\ last'.op = "create" /\ last'.origin.kind = "Signed")
             => /\ Len(last'.claim) > MaxClaimLength
                     => last'.result = "ClaimLengthTooLarge"
                /\ last'.result = "ProofAlreadyExist"
                     => /\ Len(last'.claim) <= MaxClaimLength
                        /\ contains_key(Proofs, last'.claim)
        /\ (SignedCall("revoke") \/ SignedCall("transfer"))
             => /\ ~contains_key(Proofs, last'.claim)
                     => last'.result = "ClaimNotExist"
                /\ last'.result = "NotClaimOwner"
                     => /\ contains_key(Proofs, last'.claim)
                        /\ Proofs[last'.claim][1] # last'.origin.who
      ]_vars

\* --------------------------------------------------------------------
\* C9: transfer_claim by the stored owner to itself succeeds, leaves the
\* owner as it was and sets the stored block number to the current block.
C9_SelfTransfer ==
    [][ (SignedCall("transfer")
           /\ contains_key(Proofs, last'.claim)
           /\ Proofs[last'.claim][1] = last'.origin.who
           /\ last'.target = last'.origin.who)
          => (/\ last'.result = "Ok"
              /\ DOMAIN Proofs' = DOMAIN Proofs
              /\ Proofs'[last'.claim] = <<last'.origin.who, block_number>>)
      ]_vars

\* An owner transferred a claim to itself at a later block than the stored
\* one; the owner is the same and the stored block is now the current one.
C9_Witness ==
    /\ last.op = "transfer"
    /\ last.result = "Ok"
    /\ last.target = last.origin.who
    /\ last.prior # <<>>
    /\ last.prior[1] = last.origin.who
    /\ last.prior[2] < block_number
    /\ Proofs[last.claim] = <<last.origin.who, block_number>>

\* --------------------------------------------------------------------
\* The event a successful call deposits.
EventOf(call) ==
    CASE call.op = "create"   -> <<"ClaimCreated", call.origin.who, call.claim>>
      [] call.op = "revoke"   -> <<"ClaimRevoked", call.origin.who, call.claim>>
      [] call.op = "transfer" -> <<"ClaimTransfered", call.origin.who,
                                    call.target, call.claim>>

\* C10: every call that returns Ok appends exactly one event to the log, the
\* one of its kind with its payload (ClaimCreated(caller, claim),
\* ClaimRevoked(caller, claim), ClaimTransfered(caller, target, claim)); a
\* call that returns an error appends none; nothing else touches the log. So
\* the log has as many entries as calls succeeded, in call order.
C10_OneEventPerSuccess ==
    /\ [](Len(events) = nok)
    /\ [][ IF CallStep
           THEN IF last'.result = "Ok"
                THEN events' = Append(events, EventOf(last'))
                ELSE events' = events
           ELSE events' = events ]_vars

\* Three calls succeeded, one of each kind, a revoke last, and the log holds
\* their three events in call order.
C10_Witness ==
    /\ last.op = "revoke"
    /\ last.result = "Ok"
    /\ nok = 3
    /\ Len(events) = 3
    /\ events[1][1] = "ClaimCreated"
    /\ events[2][1] = "ClaimTransfered"
    /\ events[3] = ClaimRevoked(last.origin.who, last.claim)


\* --------------------------------------------------------------------
\* C11: in every reachable state every key of Proofs is at most
\* MaxClaimLength bytes long; and the set of keys changes only by a
\* successful create_claim adding the claim it names or a successful
\* revoke_claim removing the claim it names, so an entry stays under the key
\* it was inserted with until it is removed (transfer_claim keeps the key).
C11_KeysBoundedAndFixed ==
    /\ [](\A k \in DOMAIN Proofs : Len(k) <= MaxClaimLength)
    /\ [][ /\ (DOMAIN Proofs' # DOMAIN Proofs)
                => /\ CallStep
                   /\ last'.result = "Ok"
                   /\ \/ /\ last'.op = "create"
                         /\ DOMAIN Proofs' = (DOMAIN Proofs) \cup {last'.claim}
                      \/ /\ last'.op = "revoke"
                         /\ DOMAIN Proofs' = (DOMAIN Proofs) \ {last'.claim}
           /\ (CallStep /\ last'.op = "transfer" /\ last'.result = "Ok")
                => /\ DOMAIN Proofs' = DOMAIN Proofs
                   /\ contains_key(Proofs', last'.claim) ]_vars

\* A claim of the maximal length is stored and has just been transferred to
\* another account: it is still stored under the same key.
C11_Witness ==
    /\ last.op = "transfer"
    /\ last.result = "Ok"
    /\ Len(last.claim) = MaxClaimLength
    /\ contains_key(Proofs, last.claim)
    /\ Proofs[last.claim][1] = last.target
    /\ last.target # last.origin.who
    /\ last.prior # <<>>


\* --------------------------------------------------------------------
\* Claim f has an active claim by the record of successful calls: some
\* ClaimCreated on f was deposited and no ClaimRevoked on f after the latest
\* of them.
ActiveByHistory(f) ==
    \E i \in 1..Len(events) :
        /\ events[i][1] = "ClaimCreated"
        /\ EventClaim(events[i]) = f
        /\ \A j \in (i + 1)..Len(events) :
              ~(events[j][1] = "ClaimRevoked" /\ EventClaim(events[j]) = f)

\* C12: in every reachable state a claim is a key of Proofs exactly when a
\* create_claim on it has succeeded and no revoke_claim on it has succeeded
\* since the latest one; step by step, a claim is a key after a step exactly
\* when the step is a successful create_claim on it, or it was a key and the
\* step is not a successful revoke_claim on it. A successful transfer_claim
\* and every failed call leave the set of keys as it was.
C12_KeyIffActive ==
    /\ [](\A f \in RawClaims : contains_key(Proofs, f) <=> ActiveByHistory(f))
    /\ [][ /\ \A f \in RawClaims :
                contains_key(Proofs', f)
                  <=> \/ /\ CallStep /\ last'.result = "Ok"
                         /\ last'.op = "create" /\ last'.claim = f
                      \/ /\ contains_key(Proofs, f)
                         /\ ~(/\ CallStep /\ last'.result = "Ok"
                              /\ last'.op = "revoke" /\ last'.claim = f)
           /\ (CallStep /\ (last'.op = "transfer" \/ last'.result # "Ok"))
                => DOMAIN Proofs' = DOMAIN Proofs ]_vars

\* One claim was created and revoked and is not a key, while another claim,
\* created and never revoked, is.
C12_Witness ==
    /\ last.op = "revoke"
    /\ last.result = "Ok"
    /\ ~contains_key(Proofs, last.claim)
    /\ ~ActiveByHistory(last.claim)
    /\ \E i \in 1..Len(events) : events[i] = ClaimCreated(last.origin.who, last.claim)
    /\ \E g \in DOMAIN Proofs : g # last.claim /\ ActiveByHistory(g)

\* --------------------------------------------------------------------
\* C13: every call, successful or failed, whatever its origin and claim
\* bytes, leaves the entry (presence, owner and block number) of every claim
\* other than the one it names as it was.
C13_OtherEntriesUntouched ==
    [][ CallStep
          => \A g \in (DOMAIN Proofs) \cup (DOMAIN Proofs') :
                g # last'.claim => get(Proofs', g) = get(Proofs, g) ]_vars

\* A claim was revoked by its owner while another claim was stored; the
\* other claim is still there.
C13_Witness ==
    /\ last.op = "revoke"
    /\ last.result = "Ok"
    /\ last.prior # <<>>
    /\ ~contains_key(Proofs, last.claim)
    /\ \E g \in DOMAIN Proofs :
          /\ g # last.claim
          /\ \E i \in 1..Len(events) : events[i] = ClaimCreated(Proofs[g][1], g)

\* --------------------------------------------------------------------
\* C14: a create_claim, revoke_claim or transfer_claim whose origin is not a
\* signed one fails with BadOrigin, which is none of the pallet's four
\* errors, before any check of the claim: whatever claim it names and
\* whatever Proofs holds, Proofs is unchanged and no event is deposited.
C14_UnsignedRejectedFirst ==
    [][ (CallStep /\ last'.origin.kind # "Signed"
           /\ Len(last'.claim) <= MaxClaimLength)
          => (/\ last'.result = "BadOrigin"
              /\ last'.result \notin {"ProofAlreadyExist", "ClaimLengthTooLarge",
                                      "ClaimNotExist", "NotClaimOwner"}
              /\ Proofs' = Proofs
              /\ events' = events) ]_vars

\* An unsigned create_claim named a claim that is already stored and was
\* answered with BadOrigin, not with ProofAlreadyExist.
C14_Witness ==
    /\ last.op = "create"
    /\ last.origin.kind = "None"
    /\ last.result = "BadOrigin"
    /\ contains_key(Proofs, last.claim)
    /\ last.prior = Proofs[last.claim]
    /\ Len(events) = 1


\* --------------------------------------------------------------------
\* What each call of the script returns, and who owns "hello" after it.
ScenarioResult ==
    <<"Ok", "ProofAlreadyExist", "NotClaimOwner", "Ok", "NotClaimOwner", "Ok">>
ScenarioOwner == <<"Alice", "Alice", "Alice", "Carol", "Carol", NoAccount>>

\* C15: with MaxClaimLength = 10 and empty storage, create(Alice, "hello") at
\* T1, create(Bob, "hello") at T2, transfer(Bob, "hello", Carol),
\* transfer(Alice, "hello", Carol) at T3, revoke(Alice, "hello"),
\* revoke(Carol, "hello") return, in order, Ok with Proofs = {hello: (Alice,
\* T1)}, ProofAlreadyExist, NotClaimOwner, Ok with Proofs = {hello: (Carol,
\* T3)}, NotClaimOwner, Ok with Proofs empty; the failed calls and the time
\* between calls leave Proofs as it was.
C15_Scenario ==
    /\ [](/\ MaxClaimLength = 10
          /\ step = 0 => Proofs = <<>>
          /\ step \in {1, 2, 3, 4, 5}
               => /\ DOMAIN Proofs = {Hello}
                  /\ Proofs[Hello][1] = ScenarioOwner[step]
          /\ step = 6 => Proofs = <<>>
          /\ last # NoCall
               => /\ last.result = ScenarioResult[step]
                  /\ last.op = Script[step].op
                  /\ last.origin = Signed(Script[step].who)
                  /\ last.claim = Hello
                  /\ step \in {1, 4} => Proofs[Hello][2] = block_number)
    /\ [][ (step' = step \/ step' \in {2, 3, 5}) => Proofs' = Proofs ]_vars

\* The whole script has run, at three different block numbers: the last
\* revoke succeeded, storage is empty and the three successful calls left
\* their events.
C15_Witness ==
    /\ step = 6
    /\ last.op = "revoke"
    /\ last.origin = Signed("Carol")
    /\ last.result = "Ok"
    /\ last.prior = <<"Carol", 2>>
    /\ block_number = 3
    /\ Proofs = <<>>
    /\ events = <<ClaimCreated("Alice", Hello),
                  ClaimTransfered("Alice", "Carol", Hello),
                  ClaimRevoked("Carol", Hello)>>


\* --------------------------------------------------------------------
\* Kinds of statement.
IsCheck(stmt) ==
    stmt \in {"ensure_signed", "ensure_length", "ensure_absent", "get_owner",
              "ensure_owner"}
IsStorageWrite(stmt) == stmt \in {"insert_sender", "insert_target", "remove"}
IsDeposit(stmt) ==
    stmt \in {"deposit_created", "deposit_revoked", "deposit_transfered"}

\* In a body every check comes before the one write to Proofs, which comes
\* before the one deposit of an event, which comes before the final Ok.
ChecksThenWriteThenEvent(body) ==
    /\ Cardinality({i \in 1..Len(body) : IsStorageWrite(body[i])}) = 1
    /\ Cardinality({i \in 1..Len(body) : IsDeposit(body[i])}) = 1
    /\ \A i, j \in 1..Len(body) :
          /\ (IsStorageWrite(body[i]) \/ IsDeposit(body[i])) => ~IsCheck(body[j]) \/ j < i
          /\ (IsStorageWrite(body[i]) /\ IsDeposit(body[j])) => i < j
    /\ body[Len(body)] = "return_ok"

\* C16: in create_claim, revoke_claim and transfer_claim every check runs
\* before the single write to Proofs and before the event is deposited, and
\* nothing after the write can fail. For every call dispatched from every
\* reachable state: run statement by statement, the call never has a working
\* state with Proofs or the event log modified and then returns an error;
\* its last working state is what the call returns and leaves; and a call
\* that returns an error leaves Proofs and the event log as they were.
C16_NoWriteBeforeError ==
    /\ \A op \in {"create", "revoke", "transfer"} :
          ChecksThenWriteThenEvent(BodyOf(op))
    /\ [][ /\ (CallStep /\ Len(last'.claim) <= MaxClaimLength)
               => LET run == Run(last')
                      fin == run[Len(run)]
                  IN  /\ fin.result = last'.result
                      /\ fin.Proofs = Proofs'
                      /\ fin.events = events'
                      /\ \A i \in 1..Len(run) :
                            (run[i].Proofs # Proofs \/ run[i].events # events)
                              => fin.result = "Ok"
          /\ (CallStep /\ last'.result # "Ok")
               => (Proofs' = Proofs /\ events' = events) ]_vars

\* A transfer by an account that is not the owner passed two checks and was
\* refused at the third, with a claim stored and an event in the log: no
\* working state of the call differs from the state it started in.
C16_Witness ==
    /\ last.op = "transfer"
    /\ last.result = "NotClaimOwner"
    /\ Proofs # <<>>
    /\ events # <<>>
    /\ LET run == Run(last)
       IN  /\ Len(run) = 3
           /\ run[3].result = "NotClaimOwner"
           /\ \A i \in 1..3 : run[i].Proofs = Proofs /\ run[i].events = events


\* --------------------------------------------------------------------
\* This step is a successful call `op` on claim f by the signed account a.
OkCallBy(op, a, f) ==
    /\ CallStep
    /\ last'.op = op
    /\ last'.origin = Signed(a)
    /\ last'.claim = f
    /\ last'.result = "Ok"

\* C17: for every claim f and every step: if f is a key before and after and
\* its owner changes from a to b, the step is a successful transfer_claim of f
\* to b called by a; if f is a key with owner a before and not a key after,
\* the step is a successful revoke_claim of f called by a; and any step that
\* changes or removes the entry of f is a successful call by its owner. So no
\* sequence of calls by accounts other than the current owner changes or
\* removes an existing claim.
C17_OnlyOwnerChangesClaim ==
    [][ \A f \in DOMAIN Proofs :
          /\ (contains_key(Proofs', f) /\ Proofs'[f][1] # Proofs[f][1])
               => /\ OkCallBy("transfer", Proofs[f][1], f)
                  /\ last'.target = Proofs'[f][1]
          /\ ~contains_key(Proofs', f)
               => OkCallBy("revoke", Proofs[f][1], f)
          /\ get(Proofs', f) # Proofs[f]
               => /\ CallStep
                  /\ last'.origin = Signed(Proofs[f][1])
                  /\ last'.claim = f
                  /\ last'.result = "Ok" ]_vars

\* The owner of a claim changed from the caller of a successful transfer to
\* its target, another account, while a second claim is stored.
C17_Witness ==
    /\ last.op = "transfer"
    /\ last.result = "Ok"
    /\ last.prior # <<>>
    /\ last.prior[1] = last.origin.who
    /\ last.target # last.origin.who
    /\ Proofs[last.claim][1] = last.target
    /\ Cardinality(DOMAIN Proofs) = 2

\* --------------------------------------------------------------------
\* C18: the block number never decreases; in every reachable state every
\* stored block number is at most the current block number; a successful
\* create_claim or transfer_claim stores the current block number for the
\* claim it names, and no other step (a revoke, a failed call, time passing)
\* changes the stored block number of a claim that stays a key, so each
\* stored block number is the block of the latest successful create or
\* transfer on that claim and never decreases while the claim is a key.
C18_Timestamps ==
    /\ [](\A f \in DOMAIN Proofs : Proofs[f][2] <= block_number)
    /\ [][ /\ block_number' >= block_number
           /\ \A f \in DOMAIN Proofs' :
                IF CallStep /\ last'.result = "Ok" /\ last'.claim = f
                   /\ last'.op \in {"create", "transfer"}
                THEN Proofs'[f][2] = block_number
                ELSE /\ contains_key(Proofs, f)
                     /\ Proofs'[f][2] = Proofs[f][2]
           /\ \A f \in (DOMAIN Proofs) \cap (DOMAIN Proofs') :
                Proofs'[f][2] >= Proofs[f][2]
           /\ (CallStep /\ (last'.op = "revoke" \/ last'.result # "Ok"))
                => \A f \in DOMAIN Proofs' : Proofs'[f][2] = Proofs[f][2] ]_vars

\* A claim created at an earlier block was transferred to another account
\* at the current block, while a second claim keeps its earlier block number.
C18_Witness ==
    /\ last.op = "transfer"
    /\ last.result = "Ok"
    /\ last.target # last.origin.who
    /\ last.prior # <<>>
    /\ last.prior[2] < block_number
    /\ Proofs[last.claim] = <<last.target, block_number>>
    /\ \E g \in DOMAIN Proofs : g # last.claim /\ Proofs[g][2] < block_number


\* --------------------------------------------------------------------
\* The claims that fit the BoundedVec, and the calls C19 ranges over for
\* such a claim f: every op, origin and target.
FittingClaims == UNION {[1..n -> Bytes] : n \in 0..MaxClaimLength}
CallsOn(f) ==
    {<<op, origin, f, NoAccount>> : op \in {"create", "revoke"}, origin \in Origins}
      \cup {<<"transfer", origin, f, target>> :
              origin \in Origins, target \in Accounts}

\* The events a call with these arguments deposits, and the entry it leaves
\* for the claim it names.
EmittedBy(c) ==
    LET out == CallOutcome(c[1], c[2], c[3], c[4])
    IN  SubSeq(out.events, Len(events) + 1, Len(out.events))
EntryAfter(c) == get(CallOutcome(c[1], c[2], c[3], c[4]).Proofs, c[3])
ResultOf(c) == CallOutcome(c[1], c[2], c[3], c[4]).result

\* Two entries agree: both absent, or both present with the same owner.
EntriesAgree(e1, e2) ==
    \/ e1 = <<>> /\ e2 = <<>>
    \/ e1 # <<>> /\ e2 # <<>> /\ e1[1] = e2[1]

\* This step changed storage and not the clock: its two states are two
\* different registry states at the same clock value.
StorageStep == Proofs' # Proofs /\ block_number' = block_number

\* The two states of this step agree on the entry of the claim f.
AgreeingPair(f) == EntriesAgree(get(Proofs, f), get(Proofs', f))

\* What the result, the resulting entry and the events of a call are, told
\* from the presence and owner of the claim it names, its arguments and the
\* clock alone.
LocalResult(present, owner, op, origin) ==
    IF origin.kind # "Signed" THEN "BadOrigin"
    ELSE IF op = "create" THEN (IF present THEN "ProofAlreadyExist" ELSE "Ok")
    ELSE IF ~present THEN "ClaimNotExist"
    ELSE IF owner # origin.who THEN "NotClaimOwner"
    ELSE "Ok"
LocalEntry(op, origin, target, now) ==
    CASE op = "create"   -> <<origin.who, now>>
      [] op = "transfer" -> <<target, now>>
      [] op = "revoke"   -> <<>>

\* C19 as written: in two states that agree on the entry of f (both absent,
\* or both present with the same owner), the same call on f at the same clock
\* value returns the same result, deposits the same event and leaves the
\* same entry for f.
C19_Original ==
    [][ StorageStep => \A f \in FittingClaims :
          AgreeingPair(f)
            => \A c \in CallsOn(f) :
                  /\ ResultOf(c)' = ResultOf(c)
                  /\ EmittedBy(c)' = EmittedBy(c)
                  /\ EntryAfter(c)' = EntryAfter(c) ]_vars

\* The outcomes o1 and o2 of one call on f, from the first and from the second
\* state of this step: the same result and the same events deposited; the
\* same entry for f if the call succeeds, and each state's own entry for f
\* (the same presence and owner) if it fails.
AgreeingOutcomes(f, o1, o2) ==
    /\ o2.result = o1.result
    /\ SubSeq(o2.events, Len(events') + 1, Len(o2.events))
         = SubSeq(o1.events, Len(events) + 1, Len(o1.events))
    /\ EntriesAgree(get(o2.Proofs, f), get(o1.Proofs, f))
    /\ o1.result = "Ok" => get(o2.Proofs, f) = get(o1.Proofs, f)
    /\ o1.result # "Ok" => /\ get(o1.Proofs, f) = get(Proofs, f)
                           /\ get(o2.Proofs, f) = get(Proofs', f)

\* C19 as amended: in two states that agree on the entry of f (both absent,
\* or both present with the same owner), the same call on f at the same clock
\* value returns the same result and deposits the same event; if it succeeds
\* it leaves the same entry for f, and if it fails each state keeps its own
\* entry for f (the same presence and owner, but each its own block number).
\* For every call dispatched from every reachable state, the result, the
\* event and the entry left by a successful call are those told from the
\* presence and owner of f, the arguments and the clock alone, whatever the
\* other entries are.
C19_LocalOutcome ==
    /\ [][ (CallStep /\ Len(last'.claim) <= MaxClaimLength)
             => LET e == get(Proofs, last'.claim)
                    r == LocalResult(e # <<>>,
                                     IF e = <<>> THEN NoAccount ELSE e[1],
                                     last'.op, last'.origin)
                IN  /\ last'.result = r
                    /\ events' = IF r = "Ok" THEN Append(events, EventOf(last'))
                                  ELSE events
                    /\ get(Proofs', last'.claim)
                         = IF r = "Ok"
                           THEN LocalEntry(last'.op, last'.origin, last'.target,
                                           block_number)
                           ELSE e ]_vars
    /\ [][ StorageStep => \A f \in FittingClaims :
             AgreeingPair(f)
               => \A c \in CallsOn(f) :
                    AgreeingOutcomes(f, CallOutcome(c[1], c[2], f, c[4]),
                                     CallOutcome(c[1], c[2], f, c[4])') ]_vars

\* A create on one claim succeeded while another claim was stored: the states
\* before and after it agree on the entry of the other claim and differ
\* elsewhere.
C19_Witness ==
    /\ last.op = "create"
    /\ last.result = "Ok"
    /\ last.prior = <<>>
    /\ contains_key(Proofs, last.claim)
    /\ \E f \in DOMAIN Proofs : f # last.claim /\ Proofs[f][1] # last.origin.who

====
